---- MODULE Spec2Model ----
(***************************************************************************)
(* Model of the ADW plan-and-build orchestrator (adws/adw_plan_build.py)   *)
(* driving a work item through the platform adapter                        *)
(* (adws/platform_adapter.py).                                             *)
(*                                                                         *)
(* Texts (agent outputs, branch names, comment bodies) are sequences of    *)
(* tokens: free text is a sequence of one-character strings, a fixed       *)
(* phrase of a message template is one multi-character token.  Python's    *)
(* None is the one-token sequence <<"None">>, which no free text equals.   *)
(***************************************************************************)
EXTENDS Integers, Sequences, FiniteSets, TLC

\* ------------------------------------------------------------------ bounds
\* Most best-effort adapter calls (comment, status, custom field) that may
\* fail within one run.
MaxSideFail == 1

\* ------------------------------------------------------------- Python bits
None == <<"None">>

\* str(x) as used by f-string interpolation
Str(x) == IF x = None THEN <<"N", "o", "n", "e">> ELSE x

\* `if x:` on an Optional[str]
Truthy(x) == x # None /\ x # <<>>

IsSpace(c) == c \in {" ", "\n", "\t"}

RECURSIVE LStrip(_)
LStrip(s) == IF s # <<>> /\ IsSpace(Head(s)) THEN LStrip(Tail(s)) ELSE s

RECURSIVE RStrip(_)
RStrip(s) ==
    IF s # <<>> /\ IsSpace(s[Len(s)]) THEN RStrip(SubSeq(s, 1, Len(s) - 1)) ELSE s

\* str.strip()
Strip(s) == RStrip(LStrip(s))

\* `c in s` for a one-character c
Contains(s, c) == \E i \in 1..Len(s) : s[i] = c

\* Python's `sub in s` on texts
ContainsSub(s, sub) ==
    \E i \in 0..(Len(s) - Len(sub)) :
        \A j \in 1..Len(sub) : s[i + j] = sub[j]

\* str.lower() of one character
LowerChar(c) ==
    CASE c = "A" -> "a"
      [] c = "B" -> "b"
      [] c = "C" -> "c"
      [] c = "D" -> "d"
      [] c = "E" -> "e"
      [] c = "F" -> "f"
      [] c = "G" -> "g"
      [] c = "H" -> "h"
      [] c = "I" -> "i"
      [] c = "J" -> "j"
      [] c = "K" -> "k"
      [] c = "L" -> "l"
      [] c = "M" -> "m"
      [] c = "N" -> "n"
      [] c = "O" -> "o"
      [] c = "P" -> "p"
      [] c = "Q" -> "q"
      [] c = "R" -> "r"
      [] c = "S" -> "s"
      [] c = "T" -> "t"
      [] c = "U" -> "u"
      [] c = "V" -> "v"
      [] c = "W" -> "w"
      [] c = "X" -> "x"
      [] c = "Y" -> "y"
      [] c = "Z" -> "z"
      [] OTHER -> c

\* str.lower()
Lower(s) == [i \in DOMAIN s |-> LowerChar(s[i])]

\* ------------------------------------------------------------ vocabulary
AGENT_PLANNER == "sdlc_planner"
AGENT_IMPLEMENTOR == "sdlc_implementor"
AGENT_CLASSIFIER == "issue_classifier"
AGENT_PLAN_FINDER == "plan_finder"
AGENT_BRANCH_GENERATOR == "branch_generator"
AGENT_PR_CREATOR == "pr_creator"

\* IssueClassSlashCommand: the closed set of category commands
IssueClassSlashCommand ==
    { <<"/", "c", "h", "o", "r", "e">>,
      <<"/", "b", "u", "g">>,
      <<"/", "f", "e", "a", "t", "u", "r", "e">> }

\* The texts an agent may answer with: empty, "0", a command padded with
\* white space (also a path-like text), and a word without "/".
Outputs ==
    { <<>>,
      <<"0">>,
      <<" ", "/", "b", "u", "g", "\n">>,
      <<"x">> }

\* AgentPromptResponse {output, success}
AgentPromptResponse == [success : BOOLEAN, output : Outputs]

Platforms == {"github", "clickup"}

\* args.issue / args.task_id: what the command line may name the item by.
\* The issue number may be written with a leading "#".
ArgItemIds(p) == IF p = "github" THEN {"123", "#123"} ELSE {"abc123"}

\* The issue the hosting tool returns for an issue argument.
GitHubIssue(id) ==
    [number |-> 123, title |-> "Login fails", body |-> "Steps to reproduce",
     state |-> "OPEN"]

\* The task the ClickUp API returns for a task id.
ClickUpTask(id) ==
    [id |-> id, name |-> "Login fails", description |-> "Steps to reproduce",
     status |-> [status |-> "to do"], list |-> [id |-> "L1"]]

\* str(n) for an issue number
IntStr(n) == IF n = 123 THEN "123" ELSE "?"

\* WorkItem(id, title, description, status, platform, raw_data)
WorkItem(id, title, description, status, p, raw_data) ==
    <<"WorkItem", id, title, description, status, p, raw_data>>

\* GitHubAdapter.get_work_item
GitHubGetWorkItem(id) ==
    LET github_issue == GitHubIssue(id) IN
    WorkItem(IntStr(github_issue.number), github_issue.title, github_issue.body,
             github_issue.state, "github", github_issue)

\* ClickUpAdapter.get_work_item
ClickUpGetWorkItem(id) ==
    LET clickup_task == ClickUpTask(id) IN
    WorkItem(clickup_task.id, clickup_task.name, clickup_task.description,
             clickup_task.status.status, "clickup", clickup_task)

AdapterGetWorkItem(p, id) ==
    IF p = "github" THEN GitHubGetWorkItem(id) ELSE ClickUpGetWorkItem(id)

\* item_class.replace("/", "")
RemoveSlash(s) == SelectSeq(s, LAMBDA c : c # "/")

IN_PROGRESS == "in progress"
READY_FOR_REVIEW == "Ready for Review (DEV)"
FIELD_BRANCH == "GitHub Branch"
FIELD_PR_URL == "GitHub Pull Request URL"

VARIABLES
    platform,            \* args.platform
    item_id,             \* args.issue or args.task_id
    adw_id,              \* args.adw_id
    work_item,           \* the fetched WorkItem, or None
    pc,                  \* position of main()
    item_command,        \* result of classify_work_item
    branch_name,         \* result of git_branch
    item_plan_response,  \* result of build_plan
    plan_file_path,      \* result of get_plan_file
    pr_url,              \* result of pull_request
    pending_error,       \* arguments of the check_error call that is exiting
    outcome,             \* "running", "success", "exit1", "crash"
    agentLog,            \* the execute_template calls made so far
    extLog,              \* the adapter calls made so far
    twin,                \* the finished run a second run is compared with
    cl,                  \* a call of the ClickUp client (clickup.py)
    wh,                  \* the webhook server (trigger_clickup_webhook.py)
    fleet                \* the workflow processes the server launched, and
                         \* the ClickUp task they write to

vars == <<platform, item_id, adw_id, work_item, pc, item_command, branch_name,
          item_plan_response, plan_file_path, pr_url, pending_error, outcome,
          agentLog, extLog>>

\* The state outside the orchestrator run.
others == <<twin, cl, wh, fleet>>

allvars == <<vars, others>>

\* No finished run is kept, no client call is made, no server runs.
NoTwin ==
    [phase |-> 0, fetched |-> FALSE, stages |-> <<>>, answers |-> <<>>,
     calls |-> <<>>, oks |-> <<>>, outcome |-> ""]
NoClient == [op |-> "none"]
NoHook == [up |-> FALSE]
NoFleet == [up |-> FALSE]

OthersIdle == twin = NoTwin /\ cl = NoClient /\ wh = NoHook /\ fleet = NoFleet


\* --------------------------------------------------------------- messages
\* A message header without the run id.
format_item_message_NoId(adw, agent_name, message) ==
    <<agent_name, ": ">> \o message

\* format_item_message(adw_id, agent_name, message), session_id absent
format_item_message(adw, agent_name, message) ==
    <<adw, "_", agent_name, ": ">> \o message

\* the completion comment without the pull-request link
CompletionMessage_NoUrl(url, branch) ==
    <<"Automation complete! Pull Request: ">>
        \o <<" Branch: ">> \o Str(branch) \o <<" Ready for review!">>

\* the body of the completion comment
CompletionMessage(url, branch) ==
    <<"Automation complete! Pull Request: ">> \o Str(url)
        \o <<" Branch: ">> \o Str(branch) \o <<" Ready for review!">>

\* the body check_error posts
ErrorMessage(error_prefix, error) == <<"X ", error_prefix, ": ">> \o Str(error)

\* ----------------------------------------------------- platform adapters
\* Adapter calls that failed so far in this run.
SideFails == Cardinality({i \in DOMAIN extLog : ~extLog[i].ok})

\* The outcomes an adapter call that can raise may have.
Raises == IF SideFails < MaxSideFail THEN BOOLEAN ELSE {TRUE}

NoCall == [fn |-> "", item |-> "", text |-> <<>>, status |-> "", field |-> ""]

\* GitHubAdapter.add_comment / ClickUpAdapter.add_comment
AdapterAddComment(p, id, comment) ==
    [NoCall EXCEPT !.fn = IF p = "github" THEN "make_issue_comment"
                                          ELSE "add_task_comment",
                   !.item = id, !.text = comment]

\* ClickUpAdapter.update_status
ClickUpUpdateStatus(id, status) ==
    [NoCall EXCEPT !.fn = "update_task_status", !.item = id, !.status = status]

\* GitHubAdapter.update_status: the status argument is not passed on
GitHubUpdateStatus(id, status) ==
    [NoCall EXCEPT !.fn = "mark_issue_in_progress", !.item = id,
                   !.status = IN_PROGRESS]

AdapterUpdateStatus(p, id, status) ==
    IF p = "github" THEN GitHubUpdateStatus(id, status)
                    ELSE ClickUpUpdateStatus(id, status)

\* GitHubAdapter.set_custom_field prints and returns;
\* ClickUpAdapter.set_custom_field calls set_task_custom_field
AdapterSetCustomField(p, id, field_name, value) ==
    IF p = "github" THEN NoCall
    ELSE [NoCall EXCEPT !.fn = "set_task_custom_field", !.item = id,
                        !.field = field_name, !.text = value]

\* Every adapter operation can raise, GitHub's set_custom_field too.
AdapterCanRaise_Always(p, op) == TRUE

\* Whether the adapter operation can raise at all.
AdapterCanRaise(p, op) == ~(p = "github" /\ op = "set_custom_field")

\* One record of extLog: the operation main() asked for, with its arguments,
\* the call the adapter made to the platform client, and whether it returned.
ExtEntry(op, id, text, status, field, call, ok) ==
    [op |-> op, item |-> id, text |-> text, status |-> status, field |-> field,
     call |-> call, ok |-> ok]

\* ------------------------------------------------------------ agent steps
\* classify_work_item: <<command, error>>
classify_work_item(resp) ==
    IF ~resp.success THEN <<None, resp.output>>
    ELSE LET cmd == Strip(resp.output) IN
         IF cmd = <<"0">>
         THEN <<None, <<"No command selected: ">> \o resp.output>>
         ELSE IF cmd \notin IssueClassSlashCommand
         THEN <<None, <<"Invalid command selected: ">> \o resp.output>>
         ELSE <<cmd, None>>

\* get_plan_file: <<file_path, error>>
get_plan_file(resp) ==
    IF ~resp.success THEN <<None, resp.output>>
    ELSE LET file_path == Strip(resp.output) IN
         IF file_path # <<>> /\ file_path # <<"0">> /\ Contains(file_path, "/")
         THEN <<file_path, None>>
         ELSE IF file_path = <<"0">>
         THEN <<None, <<"No plan file found in output">>>>
         ELSE <<None, <<"Invalid file path response: ">> \o file_path>>

\* git_branch, git_commit, pull_request after the agent answered:
\* <<stripped output, error>>
stripped_output(resp) ==
    IF ~resp.success THEN <<None, resp.output>>
    ELSE <<Strip(resp.output), None>>

\* check_error: the error it extracts from an AgentPromptResponse
response_error(resp) == IF ~resp.success THEN resp.output ELSE None

\* check_error: whether it posts the error comment and exits
check_error(error) == Truthy(error)


\* Whether a stage's own post-processing finds a well-formed result in the
\* agent's output: a category command for classify, a path for the plan
\* finder; the other stages take the trimmed output as it is.
WellFormed(stage, output) ==
    CASE stage = "classify" -> Strip(output) \in IssueClassSlashCommand
      [] stage = "find_plan_file" ->
            /\ Strip(output) # <<>>
            /\ Strip(output) # <<"0">>
            /\ Contains(Strip(output), "/")
      [] OTHER -> TRUE

\* One record of agentLog: an execute_template call and its answer.
\* `result` is what the stage hands back to main() (None when main() keeps
\* nothing of it), `error` what main() passes to check_error, `ext_len` the
\* number of adapter calls made before it.
AgentEntry(stage, agent_name, slash_command, args, resp, result, error) ==
    [stage |-> stage, agent_name |-> agent_name, slash_command |-> slash_command,
     args |-> args, adw_id |-> adw_id, success |-> resp.success,
     wellformed |-> WellFormed(stage, resp.output),
     result |-> result, error |-> error, ext_len |-> Len(extLog)]

NoError == [agent_name |-> "", error_prefix |-> "", error |-> None]

\* ------------------------------------------------------------------- Init
\* main() before the work item is fetched
RunInit ==
    /\ platform \in Platforms
    /\ item_id \in ArgItemIds(platform)
    /\ adw_id = "a1b2c3d4"
    /\ work_item = None
    /\ pc = "get_work_item"
    /\ item_command = None
    /\ branch_name = None
    /\ item_plan_response = None
    /\ plan_file_path = None
    /\ pr_url = None
    /\ pending_error = NoError
    /\ outcome = "running"
    /\ agentLog = <<>>
    /\ extLog = <<>>

Init == RunInit /\ OthersIdle

\* An uncaught exception ends the process with a traceback.
Crash ==
    /\ pc' = "end"
    /\ outcome' = "crash"

\* ---------------------------------------------------------------- helpers
\* adapter.add_comment without the try/except around it
PostComment_Unguarded(at, agent_name, message, next) ==
    /\ pc = at
    /\ \E ok \in Raises :
        LET comment == format_item_message(adw_id, agent_name, message) IN
        /\ extLog' = Append(extLog,
              ExtEntry("add_comment", item_id, comment, "", "",
                       AdapterAddComment(platform, item_id, comment), ok))
        /\ IF ok THEN pc' = next /\ UNCHANGED outcome ELSE Crash
    /\ UNCHANGED <<others, platform, item_id, adw_id, work_item, item_command,
                   branch_name, item_plan_response, plan_file_path, pr_url,
                   pending_error, agentLog>>

\* try: adapter.add_comment(item_id, format_item_message(...)) except: warn
PostComment(at, agent_name, message, next) ==
    /\ pc = at
    /\ \E ok \in Raises :
        LET comment == format_item_message(adw_id, agent_name, message) IN
        extLog' = Append(extLog,
            ExtEntry("add_comment", item_id, comment, "", "",
                     AdapterAddComment(platform, item_id, comment), ok))
    /\ pc' = next
    /\ UNCHANGED <<others, platform, item_id, adw_id, work_item, item_command,
                   branch_name, item_plan_response, plan_file_path, pr_url,
                   pending_error, outcome, agentLog>>

\* A status update addressed by the id of the fetched work item.
RequestStatus_FetchedId(at, status, next) ==
    /\ pc = at
    /\ \E ok \in Raises :
        extLog' = Append(extLog,
            ExtEntry("update_status", work_item[2], <<>>, status, "",
                     AdapterUpdateStatus(platform, work_item[2], status), ok))
    /\ pc' = next
    /\ UNCHANGED <<others, platform, item_id, adw_id, work_item, item_command,
                   branch_name, item_plan_response, plan_file_path, pr_url,
                   pending_error, outcome, agentLog>>

\* try: adapter.update_status(item_id, status) except: warn
RequestStatus(at, status, next) ==
    /\ pc = at
    /\ \E ok \in Raises :
        extLog' = Append(extLog,
            ExtEntry("update_status", item_id, <<>>, status, "",
                     AdapterUpdateStatus(platform, item_id, status), ok))
    /\ pc' = next
    /\ UNCHANGED <<others, platform, item_id, adw_id, work_item, item_command,
                   branch_name, item_plan_response, plan_file_path, pr_url,
                   pending_error, outcome, agentLog>>

\* check_error(error, ..., agent_name, error_prefix, ...) after a stage:
\* either main() goes on at `next`, or check_error is about to post the
\* error comment and exit.
AfterCheckError(error, agent_name, error_prefix, next) ==
    IF check_error(error)
    THEN /\ pc' = "check_error"
         /\ pending_error' = [agent_name |-> agent_name,
                              error_prefix |-> error_prefix, error |-> error]
    ELSE /\ pc' = next
         /\ UNCHANGED pending_error

\* ---------------------------------------------------------------- actions
\* A fetch whose failure is reported in a comment before the exit.
GetWorkItem_CommentOnFailure ==
    /\ pc = "get_work_item"
    /\ \E found \in BOOLEAN :
        IF found
        THEN /\ work_item' = AdapterGetWorkItem(platform, item_id)
             /\ pc' = "comment_starting"
             /\ UNCHANGED <<outcome, extLog>>
        ELSE /\ pc' = "end"
             /\ outcome' = "exit1"
             /\ extLog' = Append(extLog,
                   ExtEntry("add_comment", item_id,
                            format_item_message(adw_id, "ops",
                                ErrorMessage("Error fetching work item", None)),
                            "", "",
                            AdapterAddComment(platform, item_id, <<>>), TRUE))
             /\ UNCHANGED work_item
    /\ UNCHANGED <<others, platform, item_id, adw_id, item_command, branch_name,
                   item_plan_response, plan_file_path, pr_url, pending_error,
                   agentLog>>

\* work_item = adapter.get_work_item(item_id), sys.exit(1) when it raises
GetWorkItem ==
    /\ pc = "get_work_item"
    /\ \E found \in BOOLEAN :
        IF found
        THEN /\ work_item' = AdapterGetWorkItem(platform, item_id)
             /\ pc' = "comment_starting"
             /\ UNCHANGED outcome
        ELSE /\ pc' = "end"
             /\ outcome' = "exit1"
             /\ UNCHANGED work_item
    /\ UNCHANGED <<others, platform, item_id, adw_id, item_command, branch_name,
                   item_plan_response, plan_file_path, pr_url, pending_error,
                   agentLog, extLog>>

CommentStarting ==
    PostComment("comment_starting", "ops", <<"Starting ADW workflow">>,
                "status_in_progress")

\* A status update after which main() fetches the work item again.
StatusInProgress_Refetch ==
    /\ pc = "status_in_progress"
    /\ \E ok \in Raises :
        extLog' = Append(extLog,
            ExtEntry("update_status", item_id, <<>>, IN_PROGRESS, "",
                     AdapterUpdateStatus(platform, item_id, IN_PROGRESS), ok))
    /\ pc' = "comment_analyzing"
    /\ work_item' = [work_item EXCEPT ![5] = IN_PROGRESS]
    /\ UNCHANGED <<others, platform, item_id, adw_id, item_command,
                   branch_name, item_plan_response, plan_file_path, pr_url,
                   pending_error, outcome, agentLog>>

StatusInProgress ==
    RequestStatus("status_in_progress", IN_PROGRESS, "comment_analyzing")

CommentAnalyzing ==
    PostComment("comment_analyzing", AGENT_CLASSIFIER,
                <<"Analyzing work item type">>, "classify")

\* Stage 1: classify_work_item, then check_error
Classify ==
    /\ pc = "classify"
    /\ \E resp \in AgentPromptResponse :
        LET r == classify_work_item(resp) IN
        /\ agentLog' = Append(agentLog,
              AgentEntry("classify", AGENT_CLASSIFIER, <<"/classify_issue">>,
                         <<work_item>>, resp, r[1], r[2]))
        /\ item_command' = r[1]
        /\ AfterCheckError(r[2], "ops", "Error classifying item",
                           "comment_classified")
    /\ UNCHANGED <<others, platform, item_id, adw_id, work_item, branch_name,
                   item_plan_response, plan_file_path, pr_url, outcome, extLog>>

CommentClassified ==
    PostComment("comment_classified", "ops",
                <<"Item classified as: ">> \o Str(item_command), "git_branch")

\* Stage 2: git_branch, then check_error.  item_class.replace raises on None.
GitBranch ==
    /\ pc = "git_branch"
    /\ IF item_command = None
       THEN /\ Crash
            /\ UNCHANGED <<branch_name, pending_error, agentLog>>
       ELSE /\ \E resp \in AgentPromptResponse :
                LET r == stripped_output(resp) IN
                /\ agentLog' = Append(agentLog,
                      AgentEntry("git_branch", AGENT_BRANCH_GENERATOR,
                                 <<"/generate_branch_name">>,
                                 <<RemoveSlash(item_command), item_id, work_item>>,
                                 resp, r[1], r[2]))
                /\ branch_name' = r[1]
                /\ AfterCheckError(r[2], "ops", "Error creating branch",
                                   "comment_branch")
            /\ UNCHANGED outcome
    /\ UNCHANGED <<others, platform, item_id, adw_id, work_item, item_command,
                   item_plan_response, plan_file_path, pr_url, extLog>>

CommentBranch ==
    PostComment("comment_branch", "ops",
                <<"Working on branch: ">> \o Str(branch_name), "comment_planning")

CommentPlanning ==
    PostComment("comment_planning", AGENT_PLANNER,
                <<"Building implementation plan">>, "build_plan")

\* Stage 3: build_plan, then check_error on the response.  The request
\* model rejects a slash_command that is not a SlashCommand.
BuildPlan ==
    /\ pc = "build_plan"
    /\ IF item_command \notin IssueClassSlashCommand
       THEN /\ Crash
            /\ UNCHANGED <<item_plan_response, pending_error, agentLog>>
       ELSE /\ \E resp \in AgentPromptResponse :
                /\ agentLog' = Append(agentLog,
                      AgentEntry("build_plan", AGENT_PLANNER, item_command,
                                 <<<<work_item[3], ": ", work_item[4]>>>>,
                                 resp, resp.output, response_error(resp)))
                /\ item_plan_response' = resp
                /\ AfterCheckError(response_error(resp), AGENT_PLANNER,
                                   "Error building plan", "comment_planned")
            /\ UNCHANGED outcome
    /\ UNCHANGED <<others, platform, item_id, adw_id, work_item, item_command,
                   branch_name, plan_file_path, pr_url, extLog>>

CommentPlanned ==
    PostComment("comment_planned", AGENT_PLANNER,
                <<"Implementation plan created">>, "get_plan_file")

\* Stage 4: get_plan_file(item_plan_response.output), then check_error
GetPlanFile ==
    /\ pc = "get_plan_file"
    /\ \E resp \in AgentPromptResponse :
        LET r == get_plan_file(resp) IN
        /\ agentLog' = Append(agentLog,
              AgentEntry("find_plan_file", AGENT_PLAN_FINDER,
                         <<"/find_plan_file">>, <<item_plan_response.output>>,
                         resp, r[1], r[2]))
        /\ plan_file_path' = r[1]
        /\ AfterCheckError(r[2], "ops", "Error finding plan file",
                           "comment_plan_file")
    /\ UNCHANGED <<others, platform, item_id, adw_id, work_item, item_command,
                   branch_name, item_plan_response, pr_url, outcome, extLog>>

CommentPlanFile ==
    PostComment("comment_plan_file", "ops",
                <<"Plan file created: ">> \o Str(plan_file_path),
                "comment_committing_plan")

CommentCommittingPlan ==
    PostComment("comment_committing_plan", AGENT_PLANNER, <<"Committing plan">>,
                "commit_plan")


\* git_commit(agent_name, ...), then check_error.  item_class.replace raises
\* on None.
GitCommit(at, stage, agent_name, error_prefix, next) ==
    /\ pc = at
    /\ IF item_command = None
       THEN /\ Crash
            /\ UNCHANGED <<pending_error, agentLog>>
       ELSE /\ \E resp \in AgentPromptResponse :
                LET r == stripped_output(resp) IN
                /\ agentLog' = Append(agentLog,
                      AgentEntry(stage, agent_name \o "_committer",
                                 <<"/commit">>,
                                 <<agent_name, RemoveSlash(item_command), work_item>>,
                                 resp, None, r[2]))
                /\ AfterCheckError(r[2], agent_name, error_prefix, next)
            /\ UNCHANGED outcome
    /\ UNCHANGED <<others, platform, item_id, adw_id, work_item, item_command,
                   branch_name, item_plan_response, plan_file_path, pr_url,
                   extLog>>

\* Stage 5
CommitPlan ==
    GitCommit("commit_plan", "commit_plan", AGENT_PLANNER,
              "Error committing plan", "comment_implementing")

CommentImplementing ==
    PostComment("comment_implementing", AGENT_IMPLEMENTOR,
                <<"Implementing solution">>, "implement_plan")

\* Stage 6: implement_plan(plan_file_path), then check_error on the
\* response.  The request model rejects args=[None].
ImplementPlan ==
    /\ pc = "implement_plan"
    /\ IF plan_file_path = None
       THEN /\ Crash
            /\ UNCHANGED <<pending_error, agentLog>>
       ELSE /\ \E resp \in AgentPromptResponse :
                /\ agentLog' = Append(agentLog,
                      AgentEntry("implement", AGENT_IMPLEMENTOR,
                                 <<"/implement">>, <<plan_file_path>>,
                                 resp, None, response_error(resp)))
                /\ AfterCheckError(response_error(resp), AGENT_IMPLEMENTOR,
                                   "Error implementing solution",
                                   "comment_implemented")
            /\ UNCHANGED outcome
    /\ UNCHANGED <<others, platform, item_id, adw_id, work_item, item_command,
                   branch_name, item_plan_response, plan_file_path, pr_url,
                   extLog>>

CommentImplemented ==
    PostComment("comment_implemented", AGENT_IMPLEMENTOR,
                <<"Solution implemented">>, "comment_committing_impl")

CommentCommittingImpl ==
    PostComment("comment_committing_impl", AGENT_IMPLEMENTOR,
                <<"Committing implementation">>, "commit_implementation")

\* Stage 7
CommitImplementation ==
    GitCommit("commit_implementation", "commit_implementation",
              AGENT_IMPLEMENTOR, "Error committing implementation",
              "comment_creating_pr")

CommentCreatingPR ==
    PostComment("comment_creating_pr", "ops", <<"Creating pull request">>,
                "pull_request")

\* Stage 8: pull_request(branch_name, work_item, plan_file_path, ...), then
\* check_error.  The request model rejects a None among args.
PullRequest ==
    /\ pc = "pull_request"
    /\ IF branch_name = None \/ plan_file_path = None
       THEN /\ Crash
            /\ UNCHANGED <<pr_url, pending_error, agentLog>>
       ELSE /\ \E resp \in AgentPromptResponse :
                LET r == stripped_output(resp) IN
                /\ agentLog' = Append(agentLog,
                      AgentEntry("pull_request", AGENT_PR_CREATOR,
                                 <<"/pull_request">>,
                                 <<branch_name,
                                   <<"Platform: ", platform, "Item ID: ", item_id,
                                     work_item>>,
                                   plan_file_path, adw_id>>,
                                 resp, r[1], r[2]))
                /\ pr_url' = r[1]
                /\ AfterCheckError(r[2], "ops", "Error creating pull request",
                                   "set_field_branch")
            /\ UNCHANGED outcome
    /\ UNCHANGED <<others, platform, item_id, adw_id, work_item, item_command,
                   branch_name, item_plan_response, plan_file_path, extLog>>

\* A stage 9 that writes the fields on ClickUp only.
SetCustomField_ClickUpOnly(at, field_name, value, next) ==
    /\ pc = at
    /\ IF platform = "github"
       THEN pc' = next /\ UNCHANGED extLog
       ELSE \E ok \in Raises :
              /\ extLog' = Append(extLog,
                    ExtEntry("set_custom_field", item_id, value, "", field_name,
                             AdapterSetCustomField(platform, item_id, field_name,
                                                   value), ok))
              /\ pc' = IF ok THEN next ELSE "status_ready"
    /\ UNCHANGED <<others, platform, item_id, adw_id, work_item, item_command,
                   branch_name, item_plan_response, plan_file_path, pr_url,
                   pending_error, outcome, agentLog>>

\* adapter.set_custom_field(item_id, field_name, value) inside the one try
\* block of stage 9: an exception leaves the block.
SetCustomField(at, field_name, value, next) ==
    /\ pc = at
    /\ \E ok \in (IF AdapterCanRaise(platform, "set_custom_field")
                  THEN Raises ELSE {TRUE}) :
        /\ extLog' = Append(extLog,
              ExtEntry("set_custom_field", item_id, value, "", field_name,
                       AdapterSetCustomField(platform, item_id, field_name, value),
                       ok))
        /\ pc' = IF ok THEN next ELSE "status_ready"
    /\ UNCHANGED <<others, platform, item_id, adw_id, work_item, item_command,
                   branch_name, item_plan_response, plan_file_path, pr_url,
                   pending_error, outcome, agentLog>>

\* Stage 9
SetFieldBranch ==
    SetCustomField("set_field_branch", FIELD_BRANCH, branch_name, "set_field_pr_url")

SetFieldPrUrl ==
    SetCustomField("set_field_pr_url", FIELD_PR_URL, pr_url, "status_ready")

StatusReady ==
    RequestStatus("status_ready", READY_FOR_REVIEW, "comment_complete")

\* the final comment; main() then returns
CommentComplete ==
    /\ pc = "comment_complete"
    /\ \E ok \in Raises :
        LET comment == format_item_message(adw_id, "ops",
                           CompletionMessage(pr_url, branch_name)) IN
        extLog' = Append(extLog,
            ExtEntry("add_comment", item_id, comment, "", "",
                     AdapterAddComment(platform, item_id, comment), ok))
    /\ pc' = "end"
    /\ outcome' = "success"
    /\ UNCHANGED <<others, platform, item_id, adw_id, work_item, item_command,
                   branch_name, item_plan_response, plan_file_path, pr_url,
                   pending_error, agentLog>>

\* check_error whose add_comment is not guarded: its exception replaces
\* the exit
CheckErrorExit_Unguarded ==
    /\ pc = "check_error"
    /\ \E ok \in Raises :
        LET comment == format_item_message(adw_id, pending_error.agent_name,
                           ErrorMessage(pending_error.error_prefix,
                                        pending_error.error)) IN
        /\ extLog' = Append(extLog,
              ExtEntry("add_comment", item_id, comment, "", "",
                       AdapterAddComment(platform, item_id, comment), ok))
        /\ outcome' = IF ok THEN "exit1" ELSE "crash"
    /\ pc' = "end"
    /\ UNCHANGED <<others, platform, item_id, adw_id, work_item, item_command,
                   branch_name, item_plan_response, plan_file_path, pr_url,
                   pending_error, agentLog>>

\* check_error with an error: log it, try to post the error comment,
\* sys.exit(1)
CheckErrorExit ==
    /\ pc = "check_error"
    /\ \E ok \in Raises :
        LET comment == format_item_message(adw_id, pending_error.agent_name,
                           ErrorMessage(pending_error.error_prefix,
                                        pending_error.error)) IN
        extLog' = Append(extLog,
            ExtEntry("add_comment", item_id, comment, "", "",
                     AdapterAddComment(platform, item_id, comment), ok))
    /\ pc' = "end"
    /\ outcome' = "exit1"
    /\ UNCHANGED <<others, platform, item_id, adw_id, work_item, item_command,
                   branch_name, item_plan_response, plan_file_path, pr_url,
                   pending_error, agentLog>>

Next ==
    \/ GetWorkItem
    \/ CommentStarting
    \/ StatusInProgress
    \/ CommentAnalyzing
    \/ Classify
    \/ CommentClassified
    \/ GitBranch
    \/ CommentBranch
    \/ CommentPlanning
    \/ BuildPlan
    \/ CommentPlanned
    \/ GetPlanFile
    \/ CommentPlanFile
    \/ CommentCommittingPlan
    \/ CommitPlan
    \/ CommentImplementing
    \/ ImplementPlan
    \/ CommentImplemented
    \/ CommentCommittingImpl
    \/ CommitImplementation
    \/ CommentCreatingPR
    \/ PullRequest
    \/ SetFieldBranch
    \/ SetFieldPrUrl
    \/ StatusReady
    \/ CommentComplete
    \/ CheckErrorExit

Spec == Init /\ [][Next]_allvars

\* ------------------------------------------------ ClickUp client, HTTP path
MaxTags == 2

MaxFields == 1

\* Status codes the ClickUp API answers with
HttpStatuses == {200, 201, 400, 404, 500}

\* f"{response.status_code}"
StatusStr(n) ==
    CASE n = 200 -> "200"
      [] n = 201 -> "201"
      [] n = 400 -> "400"
      [] n = 404 -> "404"
      [] OTHER -> "500"

\* response.text
Bodies ==
    {<<>>,
     <<"N", "o", "t", " ", "F", "o", "u", "n", "d">>,
     <<"t", "e", "a", "m", " ", "n", "o", "t", " ", "f", "o", "u", "n", "d">>,
     <<"O", "o", "p", "s">>}

Raise(kind, msg) == [kind |-> kind, msg |-> msg]

Return == [kind |-> "ok", msg |-> <<>>]

\* get_task, the statements inside the try block after the ImportError
get_task_http(task_id, status, body, valid) ==
    IF status = 404
    THEN Raise("TaskNotFoundError",
               <<"Task ", task_id>> \o <<" ", "n", "o", "t", " ", "f", "o", "u", "n", "d">>)
    ELSE IF status # 200
    THEN Raise("ClickUpAPIError",
               <<"ClickUp API error: ", StatusStr(status), " - ">> \o body)
    ELSE IF ~valid
    THEN Raise("JSONDecodeError", <<"Expecting value">>)
    ELSE Return

\* get_task: the except clause sorts every exception by its message
get_task(task_id, status, body, valid) ==
    LET e == get_task_http(task_id, status, body, valid) IN
    IF e.kind = "ok" THEN e
    ELSE IF ContainsSub(Lower(e.msg), <<"n", "o", "t", " ", "f", "o", "u", "n", "d">>)
    THEN Raise("TaskNotFoundError", <<"Task ", task_id>> \o <<" ", "n", "o", "t", " ", "f", "o", "u", "n", "d">>)
    ELSE Raise("ClickUpAPIError",
               <<"Failed to fetch task ", task_id, ": ">> \o e.msg)

GetTask ==
    /\ cl = NoClient
    /\ \E status \in HttpStatuses, body \in Bodies, valid \in BOOLEAN :
          cl' = [op |-> "get_task", status |-> status, body |-> body,
                 valid |-> valid,
                 result |-> get_task("abc123", status, body, valid)]
    /\ UNCHANGED <<vars, twin, wh, fleet>>

\* The field catalogs GET /list/{list_id}/field may answer with
Catalogs ==
    {<<>>,
     <<[name |-> FIELD_BRANCH, id |-> <<"f1">>]>>,
     <<[name |-> FIELD_BRANCH, id |-> <<"f1">>], [name |-> FIELD_PR_URL, id |-> <<"f2">>]>>,
     <<[name |-> "Notes", id |-> <<"f3">>], [name |-> FIELD_PR_URL, id |-> <<"f2">>]>>,
     <<[name |-> FIELD_BRANCH, id |-> <<>>], [name |-> FIELD_BRANCH, id |-> <<"f4">>]>>}

\* The loop over fields_data["fields"]: the id of the first field with the
\* name, None when there is none
FieldId(catalog, field_name) ==
    LET hits == {i \in DOMAIN catalog : catalog[i].name = field_name} IN
    IF hits = {} THEN None
    ELSE catalog[CHOOSE i \in hits : \A j \in hits : i <= j].id

Request(method, url) == [method |-> method, url |-> url]

\* set_task_custom_field without the check of field_id
set_task_custom_field_NoCheck(task_id, list_id, field_name, fields_status, catalog, set_status) ==
    LET get == Request("GET", <<"list/", list_id, "/field">>)
        field_id == FieldId(catalog, field_name)
        post == Request("POST", <<"task/", task_id, "/field/", field_id>>) IN
    IF fields_status # 200
    THEN [kind |-> "ClickUpAPIError", requests |-> <<get>>]
    ELSE IF set_status # 200
    THEN [kind |-> "ClickUpAPIError", requests |-> <<get, post>>]
    ELSE [kind |-> "ok", requests |-> <<get, post>>]

\* set_task_custom_field, the statements after the ImportError; the except
\* clause turns every exception into ClickUpAPIError
set_task_custom_field(task_id, list_id, field_name, fields_status, catalog, set_status) ==
    LET get == Request("GET", <<"list/", list_id, "/field">>)
        field_id == FieldId(catalog, field_name)
        post == Request("POST", <<"task/", task_id, "/field/", field_id>>) IN
    IF fields_status # 200
    THEN [kind |-> "ClickUpAPIError", requests |-> <<get>>]
    ELSE IF ~Truthy(field_id)
    THEN [kind |-> "ClickUpAPIError", requests |-> <<get>>]
    ELSE IF set_status # 200
    THEN [kind |-> "ClickUpAPIError", requests |-> <<get, post>>]
    ELSE [kind |-> "ok", requests |-> <<get, post>>]

SetTaskCustomField ==
    /\ cl = NoClient
    /\ \E field_name \in {FIELD_BRANCH, FIELD_PR_URL},
          fields_status \in HttpStatuses, catalog \in Catalogs,
          set_status \in HttpStatuses :
          cl' = [op |-> "set_task_custom_field", field_name |-> field_name,
                 fields_status |-> fields_status, catalog |-> catalog,
                 set_status |-> set_status,
                 result |-> set_task_custom_field("abc123", "L1", field_name,
                               fields_status, catalog, set_status)]
    /\ UNCHANGED <<vars, twin, wh, fleet>>

\* ------------------------------------------------------ extract_task_type
\* No return statement was reached: the loop goes on
NoMatch == ""

\* The rule of the tag loop and of the Type field, on a lower-cased text
TagRule(t) ==
    IF ContainsSub(t, <<"b", "u", "g">>) \/ ContainsSub(t, <<"f", "i", "x">>)
    THEN "bug"
    ELSE IF ContainsSub(t, <<"f", "e", "a", "t", "u", "r", "e">>) THEN "feature"
    ELSE IF ContainsSub(t, <<"c", "h", "o", "r", "e">>) THEN "chore"
    ELSE IF ContainsSub(t, <<"u", "p", "d", "a", "t", "e">>)
            \/ ContainsSub(t, <<"e", "n", "h", "a", "n", "c", "e">>)
    THEN "update"
    ELSE NoMatch

\* The rule of the fallback on the lower-cased name and description, with a
\* check for the word feature put first after the bug words
TextRule_FeatureFirst(t) ==
    IF \E k \in {<<"f", "i", "x">>, <<"b", "u", "g">>,
                 <<"e", "r", "r", "o", "r">>,
                 <<"b", "r", "o", "k", "e", "n">>} : ContainsSub(t, k)
    THEN "bug"
    ELSE IF ContainsSub(t, <<"f", "e", "a", "t", "u", "r", "e">>) THEN "feature"
    ELSE IF \E k \in {<<"c", "h", "o", "r", "e">>, <<"r", "e", "f", "a", "c", "t", "o", "r">>,
                      <<"c", "l", "e", "a", "n", "u", "p">>,
                      <<"m", "a", "i", "n", "t", "e", "n", "a", "n", "c", "e">>} :
                ContainsSub(t, k)
    THEN "chore"
    ELSE IF \E k \in {<<"u", "p", "d", "a", "t", "e">>, <<"e", "n", "h", "a", "n", "c", "e">>,
                      <<"i", "m", "p", "r", "o", "v", "e">>,
                      <<"o", "p", "t", "i", "m", "i", "z", "e">>} :
                ContainsSub(t, k)
    THEN "update"
    ELSE "feature"

\* The rule of the fallback on the lower-cased name and description
TextRule(t) ==
    IF \E k \in {<<"f", "i", "x">>, <<"b", "u", "g">>,
                 <<"e", "r", "r", "o", "r">>,
                 <<"b", "r", "o", "k", "e", "n">>} : ContainsSub(t, k)
    THEN "bug"
    ELSE IF \E k \in {<<"c", "h", "o", "r", "e">>, <<"r", "e", "f", "a", "c", "t", "o", "r">>,
                      <<"c", "l", "e", "a", "n", "u", "p">>,
                      <<"m", "a", "i", "n", "t", "e", "n", "a", "n", "c", "e">>} :
                ContainsSub(t, k)
    THEN "chore"
    ELSE IF \E k \in {<<"u", "p", "d", "a", "t", "e">>, <<"e", "n", "h", "a", "n", "c", "e">>,
                      <<"i", "m", "p", "r", "o", "v", "e">>,
                      <<"o", "p", "t", "i", "m", "i", "z", "e">>} :
                ContainsSub(t, k)
    THEN "update"
    ELSE "feature"

\* f"{task.name} {task.description or task.text_content or ''}".lower()
TaskText(task) ==
    Lower(task.name \o <<" ">> \o
          (IF Truthy(task.description) THEN task.description
           ELSE IF Truthy(task.text_content) THEN task.text_content
           ELSE <<>>))

\* What the tag loop returns at tag i
TagAt(task, i) == TagRule(Lower(task.tags[i]))

\* What the custom-field loop returns at field i
FieldAt(task, i) ==
    LET field == task.custom_fields[i] IN
    IF Lower(field.name) = <<"t", "y", "p", "e">> /\ Truthy(field.value)
    THEN TagRule(Lower(Str(field.value)))
    ELSE NoMatch

\* The first index of 1..n at which `at` returns, 0 when there is none
RECURSIVE FirstFrom(_, _, _)
FirstFrom(at, i, n) ==
    IF i > n THEN 0
    ELSE IF at[i] # NoMatch THEN i
    ELSE FirstFrom(at, i + 1, n)

\* extract_task_type with the custom-field loop before the tag loop
extract_task_type_FieldFirst(task) ==
    LET tags == [i \in DOMAIN task.tags |-> TagAt(task, i)]
        fields == [i \in DOMAIN task.custom_fields |-> FieldAt(task, i)]
        t == FirstFrom(tags, 1, Len(tags))
        f == FirstFrom(fields, 1, Len(fields)) IN
    IF f # 0 THEN fields[f]
    ELSE IF t # 0 THEN tags[t]
    ELSE TextRule(TaskText(task))

extract_task_type(task) ==
    LET tags == [i \in DOMAIN task.tags |-> TagAt(task, i)]
        fields == [i \in DOMAIN task.custom_fields |-> FieldAt(task, i)]
        t == FirstFrom(tags, 1, Len(tags))
        f == FirstFrom(fields, 1, Len(fields)) IN
    IF t # 0 THEN tags[t]
    ELSE IF f # 0 THEN fields[f]
    ELSE TextRule(TaskText(task))

\* Sequences over S of length at most n
SeqUpTo(S, n) == UNION {[1..k -> S] : k \in 0..n}

TagNames ==
    {<<"b", "u", "g", "-", "f", "i", "x">>,
     <<"F", "e", "a", "t", "u", "r", "e">>,
     <<"E", "n", "h", "a", "n", "c", "e", "m", "e", "n", "t">>,
     <<"u", "r", "g", "e", "n", "t">>}

FieldNames ==
    {<<"T", "y", "p", "e">>,
     <<"T", "Y", "P", "E">>,
     <<"P", "r", "i", "o", "r", "i", "t", "y">>}

FieldValues ==
    {None, <<>>,
     <<"F", "e", "a", "t", "u", "r", "e">>,
     <<"B", "u", "g", "f", "i", "x">>,
     <<"c", "h", "o", "r", "e">>}

TaskNames ==
    {<<"L", "o", "g", "i", "n", " ", "p", "a", "g", "e">>,
     <<"F", "i", "x", " ", "l", "o", "g", "i", "n">>,
     <<"N", "e", "w", " ", "f", "e", "a", "t", "u", "r", "e", ":", " ", "c", "l", "e", "a", "n", "u", "p", " ", "j", "o", "b">>}

TaskDescriptions ==
    {None, <<>>,
     <<"f", "i", "x", " ", "b", "r", "o", "k", "e", "n", " ", "t", "h", "i", "n", "g">>,
     <<"u", "p", "d", "a", "t", "e", " ", "t", "h", "e", " ", "c", "h", "o", "r", "e", " ", "f", "e", "a", "t", "u", "r", "e">>}

TaskTextContents ==
    {None, <<"R", "e", "f", "a", "c", "t", "o", "r">>}

Tasks ==
    [tags : SeqUpTo(TagNames, MaxTags),
     custom_fields : SeqUpTo([name : FieldNames, value : FieldValues], MaxFields),
     name : TaskNames, description : TaskDescriptions,
     text_content : TaskTextContents]

ExtractTaskType ==
    /\ cl = NoClient
    /\ \E task \in Tasks :
          cl' = [op |-> "extract_task_type", task |-> task,
                 result |-> extract_task_type(task)]
    /\ UNCHANGED <<vars, twin, wh, fleet>>

InitClient ==
    /\ RunInit
    /\ platform = "clickup"
    /\ twin = NoTwin
    /\ cl = NoClient
    /\ wh = NoHook
    /\ fleet = NoFleet

NextClient ==
    \/ GetTask
    \/ SetTaskCustomField
    \/ ExtractTaskType

SpecClient == InitClient /\ [][NextClient]_allvars

\* -------------------------------------------------------- webhook trigger
MaxRequests == 2

\* A key the JSON object does not have
Absent == <<"absent">>

\* dict.get(key): None for a key that is absent
Get(v) == IF v = Absent THEN None ELSE v

\* dict.get(key, default)
GetOr(v, default) == IF v = Absent THEN default ELSE v

\* The X-Signature header: none, the configured token, another token
Signatures == {None, <<"s3cret">>, <<"wrong">>}

\* request.json(): a body that is no JSON, a JSON array, or a JSON object
\* with the keys the handler reads
EmptyPayload ==
    [kind |-> "object", event |-> Absent, task_id |-> Absent, history |-> <<>>,
     list_id |-> Absent, comment |-> [kind |-> "absent", text |-> Absent]]

TaskIds == {Absent, <<"abc123">>}

\* payload["history_items"]; <<>> also stands for the key being absent
Histories == {<<>>, <<[task_id |-> <<"h1">>]>>, <<[task_id |-> None]>>}

ListIds == {Absent, <<"L1">>, <<"L2">>}

\* payload["comment"]: absent, null, or an object with comment_text absent,
\* null or a text
Comments ==
    {[kind |-> "absent", text |-> Absent], [kind |-> "null", text |-> Absent]}
    \cup [kind : {"object"},
          text : {Absent, None, <<>>, <<"a", "d", "w">>,
                  <<" ", "A", "D", "W", "\n">>,
                  <<"a", "d", "w", " ", "n", "o", "w">>}]

Payloads ==
    {[EmptyPayload EXCEPT !.kind = k] : k \in {"invalid", "array"}}
    \cup {[EmptyPayload EXCEPT !.event = <<"ping">>]}
    \cup {[EmptyPayload EXCEPT !.event = e, !.task_id = t, !.history = h] :
            e \in {Absent, <<"taskUpdated">>}, t \in TaskIds, h \in Histories}
    \cup {[EmptyPayload EXCEPT !.event = <<"taskCreated">>, !.task_id = t,
                               !.history = h, !.list_id = l] :
            t \in TaskIds, h \in Histories, l \in ListIds}
    \cup {[EmptyPayload EXCEPT !.event = <<"taskCommentPosted">>, !.task_id = t,
                               !.history = h, !.comment = c] :
            t \in TaskIds, h \in Histories, c \in Comments}

Requests == [signature : Signatures, payload : Payloads]

\* make_adw_id(): a random short id, with nothing that keeps two calls apart
AdwIds == {"a1b2c3d4", "e5f6a7b8"}

\* A signature check that lets a request without the header through.
verify_clickup_signature_MissingPasses(secret, signature) ==
    IF ~Truthy(secret) THEN TRUE ELSE signature = secret \/ signature = None

\* verify_clickup_signature
verify_clickup_signature(secret, signature) ==
    IF ~Truthy(secret) THEN TRUE ELSE signature = secret

NoResponse ==
    [status |-> "", error |-> "", message |-> "", task |-> None, adw_id |-> "",
     reason |-> <<>>]

Response(status) == [NoResponse EXCEPT !.status = status]

\* The task id the handler works with: payload["task_id"], else the one of
\* the first history item
ExtractTaskId(payload) ==
    LET task_id == Get(payload.task_id) IN
    IF ~Truthy(task_id) /\ payload.history # <<>>
    THEN Get(payload.history[1].task_id)
    ELSE task_id

\* A comment text that holds more than the command still triggers.
IsAdwCommand_Contains(text) == ContainsSub(Lower(text), <<"a", "d", "w">>)

\* A comment that ends with the command triggers as well.
IsAdwCommand_LastWord(text) ==
    LET t == Lower(Strip(text)) IN
    Len(t) >= 3 /\ SubSeq(t, Len(t) - 2, Len(t)) = <<"a", "d", "w">>

\* comment_text.strip().lower() == "adw"
IsAdwCommand(text) == Lower(Strip(text)) = <<"a", "d", "w">>

\* A list filter that lets an event without list_id through.
InList_AbsentPasses(list_filter, payload) ==
    \/ ~Truthy(list_filter)
    \/ payload.list_id = Absent
    \/ Get(payload.list_id) = list_filter

\* The list check of a task-created event: no list configured, or
\* payload.get("list_id") is the configured one
InList(list_filter, payload) ==
    ~Truthy(list_filter) \/ Get(payload.list_id) = list_filter

\* An exception that leaves the handler: the framework answers 500.
InternalError_Unhandled ==
    [response |-> Response("http 500"), minted |-> <<>>, spawned |-> <<>>]

\* What clickup_webhook does with the exception handler's answer
InternalError ==
    [response |-> [Response("error") EXCEPT
                      !.message = "Internal error processing webhook"],
     minted |-> <<>>, spawned |-> <<>>]

Answer_(response) == [response |-> response, minted |-> <<>>, spawned |-> <<>>]

\* clickup_webhook: the response, the ids make_adw_id gave and the
\* processes Popen started.  `popen_ok` is whether Popen returns, `new_id`
\* what make_adw_id returns.
clickup_webhook(secret, list_filter, req, popen_ok, new_id) ==
    LET payload == req.payload IN
    IF ~verify_clickup_signature(secret, req.signature)
    THEN Answer_([Response("error") EXCEPT !.error = "Invalid signature"])
    ELSE IF payload.kind = "invalid"
    THEN Answer_([Response("error") EXCEPT !.error = "Invalid JSON"])
    ELSE IF payload.kind = "array"
    THEN InternalError
    ELSE IF Get(payload.event) = <<"ping">>
    THEN Answer_([Response("ok") EXCEPT
                     !.message = "Pong! Webhook is configured correctly"])
    ELSE
    LET event == GetOr(payload.event, <<>>)
        task_id == ExtractTaskId(payload) IN
    IF ~Truthy(task_id)
    THEN Answer_([Response("error") EXCEPT !.error = "No task_id provided"])
    ELSE IF event = <<"taskCommentPosted">>
            /\ \/ payload.comment.kind = "null"
               \/ payload.comment.kind = "object" /\ payload.comment.text = None
    THEN InternalError
    ELSE
    LET in_list == InList(list_filter, payload)
        comment_text == IF payload.comment.kind = "absent" THEN <<>>
                        ELSE GetOr(payload.comment.text, <<>>)
        should_trigger ==
            \/ event = <<"taskCreated">> /\ in_list
            \/ event = <<"taskCommentPosted">> /\ IsAdwCommand(comment_text)
        trigger_reason ==
            IF event = <<"taskCreated">>
            THEN IF in_list THEN <<"New task created">>
                 ELSE <<"Task not in configured list ">> \o list_filter
            ELSE IF event = <<"taskCommentPosted">> /\ IsAdwCommand(comment_text)
            THEN <<"Comment with 'adw' command">>
            ELSE <<>> IN
    IF should_trigger
    THEN IF ~popen_ok
         THEN [InternalError EXCEPT !.minted = <<new_id>>]
         ELSE [response |-> [Response("accepted") EXCEPT
                                !.task = task_id, !.adw_id = new_id,
                                !.reason = trigger_reason],
               minted |-> <<new_id>>,
               spawned |-> <<[platform |-> "clickup", task_id |-> task_id,
                              adw_id |-> new_id]>>]
    ELSE Answer_([Response("ignored") EXCEPT
                     !.reason = IF Truthy(trigger_reason) THEN trigger_reason
                                ELSE <<"Not a triggering event (event=">>
                                         \o event \o <<")">>])

\* POST /clickup-webhook
HandleWebhook ==
    /\ wh.up
    /\ wh.n < MaxRequests
    /\ \E req \in Requests, popen_ok \in BOOLEAN, new_id \in AdwIds :
          LET r == clickup_webhook(wh.secret, wh.list_id, req, popen_ok, new_id) IN
          wh' = [wh EXCEPT !.n = @ + 1, !.last = req, !.response = r.response,
                           !.minted = r.minted, !.spawned = r.spawned,
                           !.procs = @ \o r.spawned]
    /\ UNCHANGED <<vars, twin, cl, fleet>>

\* The server after import: CLICKUP_WEBHOOK_SECRET and CLICKUP_LIST_ID are
\* read once from the environment
InitHook ==
    /\ RunInit
    /\ platform = "clickup"
    /\ twin = NoTwin
    /\ cl = NoClient
    /\ fleet = NoFleet
    /\ wh \in [up : {TRUE}, secret : {None, <<"s3cret">>},
               list_id : {None, <<"L1">>}, n : {0},
               last : {[signature |-> None, payload |-> EmptyPayload]},
               response : {NoResponse}, minted : {<<>>}, spawned : {<<>>},
               procs : {<<>>}]

NextHook == HandleWebhook

SpecHook == InitHook /\ [][NextHook]_allvars

\* ------------------------------------------ the server and its processes
\* The events that reach the server from outside
MaxEvents == 2

\* The lists the task may be in
TaskLists == {<<"L1">>, <<"L2">>}

\* The one task the events are about
TheTask == <<"abc123">>

\* The event ClickUp sends for a new task: the handler reads event, task_id
\* and list_id
TaskCreatedEvent(task_id, list_id) ==
    [EmptyPayload EXCEPT !.event = <<"taskCreated">>, !.task_id = task_id,
                         !.list_id = list_id]

\* The event ClickUp sends for a comment: the handler reads event, task_id
\* and comment.comment_text
CommentPostedEvent(task_id, text) ==
    [EmptyPayload EXCEPT !.event = <<"taskCommentPosted">>, !.task_id = task_id,
                         !.comment = [kind |-> "object", text |-> text]]

\* What people do with the task: create it, comment "adw" on it
ExternalEvents(task_list) ==
    { TaskCreatedEvent(TheTask, task_list),
      CommentPostedEvent(TheTask, <<"a", "d", "w">>) }

\* An event the workflow is meant to start on
IsTriggeringEvent(payload) ==
    \/ payload.event = <<"taskCreated">>
    \/ /\ payload.event = <<"taskCommentPosted">>
       /\ Lower(Strip(payload.comment.text)) = <<"a", "d", "w">>

\* A launch that returns when the workflow has ended.
Popen_Wait(spawned, env_list_id, reason) ==
    [i \in DOMAIN spawned |->
        [adw_id |-> spawned[i].adw_id, task_id |-> spawned[i].task_id,
         list_id |-> env_list_id, reason |-> reason,
         pc |-> "end", outcome |-> "success", catalog |-> None]]

\* subprocess.Popen(cmd, env=os.environ.copy()): the new processes, at the
\* top of main(), with the server's CLICKUP_LIST_ID in their environment
Popen(spawned, env_list_id, reason) ==
    [i \in DOMAIN spawned |->
        [adw_id |-> spawned[i].adw_id, task_id |-> spawned[i].task_id,
         list_id |-> env_list_id, reason |-> reason,
         pc |-> "get_work_item", outcome |-> "running", catalog |-> None]]

\* POST /clickup-webhook with the processes it starts; `cause` tells an
\* event from outside from one a workflow's own comment made ClickUp send.
Receive(payload, cause, popen_ok, new_id) ==
    LET req == [signature |-> wh.secret, payload |-> payload]
        r == clickup_webhook(wh.secret, wh.list_id, req, popen_ok, new_id) IN
    /\ wh' = [wh EXCEPT !.n = @ + 1, !.last = req, !.response = r.response,
                        !.minted = r.minted, !.spawned = r.spawned,
                        !.procs = @ \o r.spawned]
    /\ fleet' = [fleet EXCEPT
          !.runs = @ \o Popen(r.spawned, wh.list_id, r.response.reason),
          !.cause = cause,
          !.events = IF cause = "external" THEN @ + 1 ELSE @,
          !.triggers = IF cause = "external" /\ IsTriggeringEvent(payload)
                       THEN @ + 1 ELSE @,
          !.inbox = IF cause = "own" THEN Tail(@) ELSE @]

\* Somebody creates the task or comments on it
ExternalEvent ==
    /\ fleet.up
    /\ fleet.events < MaxEvents
    /\ \E payload \in ExternalEvents(fleet.task.list), popen_ok \in BOOLEAN,
          new_id \in AdwIds :
          Receive(payload, "external", popen_ok, new_id)
    /\ UNCHANGED <<vars, twin, cl>>

\* ClickUp reports a comment a workflow posted
OwnCommentEvent ==
    /\ fleet.up
    /\ fleet.inbox # <<>>
    /\ \E popen_ok \in BOOLEAN, new_id \in AdwIds :
          Receive(CommentPostedEvent(TheTask, Head(fleet.inbox)),
                  "own", popen_ok, new_id)
    /\ UNCHANGED <<vars, twin, cl>>

\* ClickUpAdapter.set_custom_field: the list whose field catalog is read
FieldListId_OfTask(list_id, task_list) == task_list

FieldListId(list_id, task_list) ==
    IF Truthy(list_id) THEN list_id ELSE task_list

\* The next state of process i of the fleet
Moved(i, next) == [fleet.runs EXCEPT ![i].pc = next]

Ended(i, how) == [fleet.runs EXCEPT ![i].pc = "end", ![i].outcome = how]

\* A process that waits for the earlier ones to end.
RunStep_Locked(i) ==
    /\ fleet.up
    /\ i \in DOMAIN fleet.runs
    /\ fleet.runs[i].pc # "end"
    /\ \A j \in 1..(i - 1) : fleet.runs[j].pc = "end"
    /\ fleet' = [fleet EXCEPT !.runs = Ended(i, "exit1")]
    /\ UNCHANGED <<vars, twin, cl, wh>>

\* main() of process i, seen from the task: the fetch, the starting
\* comment, the in-progress status, the stages (a failing stage posts the
\* error comment and exits), the custom fields, the ready-for-review status
\* and the completion comment.  The comments and status updates are taken
\* to reach the task; the progress comments of the stages, which are posted
\* like the starting comment, are left out.
RunStep(i) ==
    LET run == fleet.runs[i]
        Comment(agent_name, message) ==
            Append(fleet.inbox,
                   format_item_message(run.adw_id, agent_name, message)) IN
    /\ fleet.up
    /\ i \in DOMAIN fleet.runs
    /\ run.pc # "end"
    /\ \E ok \in BOOLEAN :
        CASE run.pc = "get_work_item" ->
               fleet' = [fleet EXCEPT
                  !.runs = IF ok THEN Moved(i, "comment_starting")
                           ELSE Ended(i, "exit1")]
          [] run.pc = "comment_starting" ->
               fleet' = [fleet EXCEPT
                  !.runs = Moved(i, "status_in_progress"),
                  !.inbox = Comment("ops", <<"Starting ADW workflow">>)]
          [] run.pc = "status_in_progress" ->
               fleet' = [fleet EXCEPT
                  !.runs = Moved(i, "stages"),
                  !.task.status = <<i, IN_PROGRESS>>]
          [] run.pc = "stages" ->
               fleet' = [fleet EXCEPT
                  !.runs = IF ok THEN Moved(i, "set_custom_field")
                           ELSE Ended(i, "exit1"),
                  !.inbox =
                      IF ok THEN @
                      ELSE Comment("ops",
                               ErrorMessage("Error classifying item",
                                            <<"a", "d", "w">>))]
          [] run.pc = "set_custom_field" ->
               fleet' = [fleet EXCEPT
                  !.runs = [Moved(i, "status_ready") EXCEPT
                               ![i].catalog =
                                   IF ok THEN FieldListId(run.list_id,
                                                          fleet.task.list)
                                   ELSE @]]
          [] run.pc = "status_ready" ->
               fleet' = [fleet EXCEPT
                  !.runs = Moved(i, "comment_complete"),
                  !.task.status = <<i, READY_FOR_REVIEW>>]
          [] run.pc = "comment_complete" ->
               fleet' = [fleet EXCEPT
                  !.runs = Ended(i, "success"),
                  !.inbox =
                      Comment("ops", CompletionMessage(<<"u">>, <<"b", "1">>))]
    /\ UNCHANGED <<vars, twin, cl, wh>>

\* Some process of the fleet takes its next step
RunSteps == \E i \in 1..MaxEvents : RunStep(i)

\* The server after import and a task nobody has touched yet.  fleet.task
\* is the task's list and its status with the process that set it,
\* fleet.inbox the posted comments ClickUp has still to report to the server.
InitFleet ==
    /\ RunInit
    /\ platform = "clickup"
    /\ twin = NoTwin
    /\ cl = NoClient
    /\ wh \in [up : {TRUE}, secret : {<<"s3cret">>},
               list_id : {None, <<"L1">>}, n : {0},
               last : {[signature |-> None, payload |-> EmptyPayload]},
               response : {NoResponse}, minted : {<<>>}, spawned : {<<>>},
               procs : {<<>>}]
    /\ fleet \in [up : {TRUE},
                  task : [list : TaskLists, status : {<<0, "to do">>}],
                  inbox : {<<>>}, runs : {<<>>}, cause : {""}, events : {0},
                  triggers : {0}]

NextFleet ==
    \/ ExternalEvent
    \/ OwnCommentEvent
    \/ RunSteps

SpecFleet == InitFleet /\ [][NextFleet]_allvars

\* ------------------------------------------------- two runs, one after
\* the other: a GitHub run, then a ClickUp run that is given the same agent
\* answers and the same adapter call outcomes.

\* What a run receives from an agent call.
Answer(e) == <<e.success, e.result, e.error>>

\* What a run shows of its adapter calls: the operation kinds with the
\* status strings and custom-field names.
ObsExt(log) == [i \in DOMAIN log |-> <<log[i].op, log[i].status, log[i].field>>]

\* What a run shows of its agent calls: the stages and where they fall
\* among the adapter calls.
ObsAgent(log) == [i \in DOMAIN log |-> <<log[i].stage, log[i].ext_len>>]

\* The step of the second run takes the inputs the first run took at the
\* same call, as long as the first run made that call.
Follows ==
    twin.phase = 2 =>
        /\ pc = "get_work_item" => ((work_item' # None) = twin.fetched)
        /\ (Len(agentLog') > Len(agentLog)
                /\ Len(agentLog') <= Len(twin.answers)) =>
              Answer(agentLog'[Len(agentLog')]) = twin.answers[Len(agentLog')]
        /\ (Len(extLog') > Len(extLog) /\ Len(extLog') <= Len(twin.oks)) =>
              extLog'[Len(extLog')].ok = twin.oks[Len(extLog')]

\* The first run has ended: keep what it did and what it was given, and
\* start the ClickUp run.
SwitchRun ==
    /\ twin.phase = 1
    /\ pc = "end"
    /\ twin' = [phase |-> 2, fetched |-> work_item # None,
                stages |-> ObsAgent(agentLog),
                answers |-> [i \in DOMAIN agentLog |-> Answer(agentLog[i])],
                calls |-> ObsExt(extLog),
                oks |-> [i \in DOMAIN extLog |-> extLog[i].ok],
                outcome |-> outcome]
    /\ platform' = "clickup"
    /\ item_id' \in ArgItemIds("clickup")
    /\ work_item' = None
    /\ pc' = "get_work_item"
    /\ item_command' = None
    /\ branch_name' = None
    /\ item_plan_response' = None
    /\ plan_file_path' = None
    /\ pr_url' = None
    /\ pending_error' = NoError
    /\ outcome' = "running"
    /\ agentLog' = <<>>
    /\ extLog' = <<>>
    /\ UNCHANGED <<adw_id, cl, wh, fleet>>

InitTwin ==
    /\ RunInit
    /\ platform = "github"
    /\ twin = [NoTwin EXCEPT !.phase = 1]
    /\ cl = NoClient
    /\ wh = NoHook
    /\ fleet = NoFleet

NextTwin ==
    \/ GetWorkItem /\ Follows
    \/ CommentStarting /\ Follows
    \/ StatusInProgress /\ Follows
    \/ CommentAnalyzing /\ Follows
    \/ Classify /\ Follows
    \/ CommentClassified /\ Follows
    \/ GitBranch /\ Follows
    \/ CommentBranch /\ Follows
    \/ CommentPlanning /\ Follows
    \/ BuildPlan /\ Follows
    \/ CommentPlanned /\ Follows
    \/ GetPlanFile /\ Follows
    \/ CommentPlanFile /\ Follows
    \/ CommentCommittingPlan /\ Follows
    \/ CommitPlan /\ Follows
    \/ CommentImplementing /\ Follows
    \/ ImplementPlan /\ Follows
    \/ CommentImplemented /\ Follows
    \/ CommentCommittingImpl /\ Follows
    \/ CommitImplementation /\ Follows
    \/ CommentCreatingPR /\ Follows
    \/ PullRequest /\ Follows
    \/ SetFieldBranch /\ Follows
    \/ SetFieldPrUrl /\ Follows
    \/ StatusReady /\ Follows
    \/ CommentComplete /\ Follows
    \/ CheckErrorExit /\ Follows
    \/ SwitchRun

SpecTwin == InitTwin /\ [][NextTwin]_allvars

TypeOK ==
    /\ platform \in Platforms
    /\ outcome \in {"running", "success", "exit1", "crash"}
    /\ (pc = "end") = (outcome # "running")


\* ================================================================ claims
StageOrder ==
    <<"classify", "git_branch", "build_plan", "find_plan_file", "commit_plan",
      "implement", "commit_implementation", "pull_request">>

\* The stages invoked so far, in order.
Invoked == [i \in DOMAIN agentLog |-> agentLog[i].stage]

\* A stage failed: the agent reported failure or no well-formed result.
Failed(e) == ~e.success \/ ~e.wellformed

NoStageFailed == \A i \in DOMAIN agentLog : ~Failed(agentLog[i])

IsPrefix(s, t) == Len(s) <= Len(t) /\ s = SubSeq(t, 1, Len(s))

\* The comment check_error posts.
IsErrorComment(e) ==
    e.op = "add_comment" /\ Len(e.text) >= 5 /\ e.text[5] = "X "

ErrorComments == {i \in DOMAIN extLog : IsErrorComment(extLog[i])}

\* Stage 9 (update-item) has begun: a custom-field write or the
\* ready-for-review status update was asked for.
UpdateItemInvoked ==
    \E i \in DOMAIN extLog :
        \/ extLog[i].op = "set_custom_field"
        \/ extLog[i].op = "update_status" /\ extLog[i].status = READY_FOR_REVIEW

\* The run stopped on a stage error: check_error is exiting or has exited.
StoppedOnError == pc = "check_error" \/ (outcome = "exit1" /\ agentLog # <<>>)

\* C1: the stages are invoked in the fixed order, none skipped or repeated,
\* and a stage (update-item included) is invoked only after every earlier
\* stage was invoked and succeeded.
C1_FixedOrderAfterSuccess ==
    /\ IsPrefix(Invoked, StageOrder)
    /\ \A i \in DOMAIN agentLog : i < Len(agentLog) => ~Failed(agentLog[i])
    /\ UpdateItemInvoked => (Invoked = StageOrder /\ NoStageFailed)

\* C2: a stage counts as failed for the run exactly when the agent answered
\* success=false or no well-formed result was found: such an answer, with
\* any output text, stops the run before the next stage, and nothing else
\* stops it on a stage error.
C2_FailedIffStops ==
    /\ \A i \in DOMAIN agentLog :
          Failed(agentLog[i]) => (i = Len(agentLog) /\ StoppedOnError)
    /\ StoppedOnError => Failed(agentLog[Len(agentLog)])

\* C3: when classification fails, no later stage is invoked and at
\* termination exactly one explanatory comment was attempted.
C3_ClassifyFailureOneComment ==
    (agentLog # <<>> /\ Failed(agentLog[1])) =>
        /\ Len(agentLog) = 1
        /\ ~UpdateItemInvoked
        /\ pc = "end" => Cardinality(ErrorComments) = 1

\* C4: when the explanatory comment of a failed stage cannot be posted, the
\* run has still ended with exit status 1 for that stage's error, and the
\* failed stage is the last one invoked.
C4_SecondaryFailureDoesNotMask ==
    \A i \in ErrorComments :
        ~extLog[i].ok =>
            /\ i = Len(extLog)
            /\ pc = "end"
            /\ outcome = "exit1"
            /\ agentLog # <<>>
            /\ Failed(agentLog[Len(agentLog)])
            /\ agentLog[Len(agentLog)].ext_len = i - 1
            /\ Truthy(pending_error.error)
            /\ ~UpdateItemInvoked

\* C4 witness: an error comment was attempted and failed.
C4_Witness ==
    /\ pc = "end"
    /\ extLog # <<>>
    /\ IsErrorComment(extLog[Len(extLog)])
    /\ ~extLog[Len(extLog)].ok

\* C5: no stage's agent is invoked twice, and after a failed stage the only
\* adapter call is the single error comment: no further agent call, status
\* update or custom-field write.
C5_NoRetryNothingAfterFailure ==
    /\ \A i, j \in DOMAIN agentLog :
          agentLog[i].stage = agentLog[j].stage => i = j
    /\ \A i \in DOMAIN agentLog :
          Failed(agentLog[i]) =>
              /\ i = Len(agentLog)
              /\ Len(extLog) <= agentLog[i].ext_len + 1
              /\ \A k \in DOMAIN extLog :
                    k > agentLog[i].ext_len => IsErrorComment(extLog[k])
              /\ pc = "end" => Len(extLog) = agentLog[i].ext_len + 1

\* C6: whenever the run goes on after classification, the command it
\* carries into the branch, plan and commit stages is one of /chore, /bug,
\* /feature; any other classifier answer makes the workflow fail.
C6_CommandInClosedSet ==
    (agentLog # <<>> /\ ~StoppedOnError) =>
        /\ item_command \in IssueClassSlashCommand
        /\ agentLog[1].success
        /\ agentLog[1].result = item_command

\* C7: commit-plan, implement and pull-request are only invoked in a run
\* whose plan path passed the check of get_plan_file: the finder succeeded
\* and its trimmed output is non-empty, not "0" and contains "/".
C7_PlanPathChecked ==
    \A i \in DOMAIN agentLog :
        agentLog[i].stage \in {"commit_plan", "implement", "pull_request"} =>
            /\ plan_file_path # None
            /\ plan_file_path # <<>>
            /\ plan_file_path # <<"0">>
            /\ Contains(plan_file_path, "/")
            /\ \E j \in 1..(i - 1) :
                  /\ agentLog[j].stage = "find_plan_file"
                  /\ ~Failed(agentLog[j])

C9_StatusPassedThrough ==
    \A i \in DOMAIN extLog :
        extLog[i].op = "update_status" => extLog[i].call.status = extLog[i].status

AllCommentsPosted ==
    \A i \in DOMAIN extLog : extLog[i].op = "add_comment" => extLog[i].ok

\* C10: in a run where every stage succeeded and every comment was posted,
\* the last adapter call is the completion comment; it carries the URL the
\* pull-request stage returned and the branch name the branch stage
\* returned, no other completion comment exists, and the ready-for-review
\* status update was requested before it.
C10_CompletionCommentLast ==
    (outcome = "success" /\ NoStageFailed /\ AllCommentsPosted) =>
        LET last == extLog[Len(extLog)] IN
        /\ last.op = "add_comment"
        /\ last.text[1] = adw_id
        /\ last.text[5] = "Automation complete! Pull Request: "
        /\ ContainsSub(last.text,
              <<"Automation complete! Pull Request: ">> \o agentLog[8].result
                  \o <<" Branch: ">> \o agentLog[2].result
                  \o <<" Ready for review!">>)
        /\ \A i \in DOMAIN extLog :
              (extLog[i].op = "add_comment" /\ i < Len(extLog)) =>
                  extLog[i].text[5] # "Automation complete! Pull Request: "
        /\ \E i \in 1..(Len(extLog) - 1) :
              extLog[i].op = "update_status" /\ extLog[i].status = READY_FOR_REVIEW

\* C10 witness: a fully successful run with all comments posted and a
\* non-empty pull-request URL.
C10_Witness ==
    /\ outcome = "success"
    /\ NoStageFailed
    /\ AllCommentsPosted
    /\ pr_url = <<"/", "b", "u", "g">>
    /\ branch_name = <<"x">>


\* C11: a GitHub run and a ClickUp run that receive the same agent answers
\* and adapter call outcomes issue the same sequence of adapter operation
\* kinds, status strings, custom-field names and agent stages, and end alike.
C11_PlatformBlind ==
    twin.phase = 2 =>
        /\ IsPrefix(ObsExt(extLog), twin.calls)
        /\ IsPrefix(ObsAgent(agentLog), twin.stages)
        /\ pc = "end" =>
              /\ ObsExt(extLog) = twin.calls
              /\ ObsAgent(agentLog) = twin.stages
              /\ outcome = twin.outcome

\* C11 witness: both runs went through stage 9 and ended successfully.
C11_Witness ==
    /\ twin.phase = 2
    /\ pc = "end"
    /\ outcome = "success"
    /\ twin.outcome = "success"
    /\ platform = "clickup"
    /\ \E i \in DOMAIN extLog : extLog[i].op = "set_custom_field"


\* The set_custom_field calls of the run
FieldWrites == {i \in DOMAIN extLog : extLog[i].op = "set_custom_field"}

\* C12: on GitHub every set_custom_field returns successfully and makes no
\* call to the platform client, so no comment, label or status is touched,
\* and stage 9 always goes through both writes on to the status update.
C12_GitHubFieldNoOp ==
    platform = "github" =>
        /\ \A i \in FieldWrites : extLog[i].ok /\ extLog[i].call = NoCall
        /\ pc \in {"status_ready", "comment_complete"} =>
              {extLog[i].field : i \in FieldWrites} = {FIELD_BRANCH, FIELD_PR_URL}

\* C12 witness: a GitHub run that made both stage-9 writes and ended well.
C12_Witness ==
    /\ platform = "github"
    /\ pc = "end"
    /\ outcome = "success"
    /\ Cardinality(FieldWrites) = 2
    /\ \E i \in FieldWrites : extLog[i].text # None /\ extLog[i].text # <<>>


\* C13: every add_comment, update_status and set_custom_field call is
\* addressed by the item id main() passed to get_work_item, and the adapter
\* hands that same id on: it is never taken from the fetched work item.
C13_SameItemId ==
    \A i \in DOMAIN extLog :
        /\ extLog[i].item = item_id
        /\ extLog[i].call # NoCall => extLog[i].call.item = item_id

\* C13 witness: a finished run whose fetched work item carries another
\* spelling of the id, with calls of all three kinds.
C13_Witness ==
    /\ pc = "end"
    /\ work_item # None
    /\ work_item[2] # item_id
    /\ {extLog[i].op : i \in DOMAIN extLog}
          = {"add_comment", "update_status", "set_custom_field"}


\* The work item an agent request was built from, by stage
RequestWorkItem(e) ==
    CASE e.stage = "classify" -> e.args[1]
      [] e.stage \in {"git_branch", "commit_plan", "commit_implementation"} ->
            e.args[3]
      [] e.stage = "pull_request" -> e.args[2][5]
      [] OTHER -> work_item

\* Nothing was posted, set or asked before the fetch; the work item is the
\* one get_work_item built; every request built from it carries it.
WorkItemFixed ==
    /\ work_item = None => agentLog = <<>> /\ extLog = <<>>
    /\ pc = "get_work_item" => work_item = None
    /\ work_item # None =>
          /\ work_item = AdapterGetWorkItem(platform, item_id)
          /\ \A i \in DOMAIN agentLog :
                /\ RequestWorkItem(agentLog[i]) = work_item
                /\ agentLog[i].stage = "build_plan" =>
                      agentLog[i].args[1] = <<work_item[3], ": ", work_item[4]>>

\* C14: the work item is built once, by the one get_work_item call that
\* precedes every comment, status update and agent request, and every later
\* stage is given that same work item.
C14_WorkItemOnce ==
    /\ []WorkItemFixed
    /\ [][work_item # None => work_item' = work_item]_allvars

\* C14 witness: a run that took the work item through all stages to the
\* pull request.
C14_Witness ==
    /\ work_item # None
    /\ pc = "end"
    /\ \E i \in DOMAIN agentLog : agentLog[i].stage = "pull_request"


\* Every comment starts with the run id and every agent request carries it.
AdwIdEverywhere ==
    /\ \A i \in DOMAIN extLog :
          extLog[i].op = "add_comment" =>
              /\ Len(extLog[i].text) >= 2
              /\ extLog[i].text[1] = adw_id
              /\ extLog[i].text[2] = "_"
    /\ \A i \in DOMAIN agentLog :
          /\ agentLog[i].adw_id = adw_id
          /\ agentLog[i].stage = "pull_request" => agentLog[i].args[4] = adw_id

\* C15: every comment the run posts begins with the run's adw_id, every
\* agent request carries that adw_id, and the adw_id never changes.
C15_OneAdwId ==
    /\ []AdwIdEverywhere
    /\ [][adw_id' = adw_id]_allvars

\* C15 witness: a finished run with all eight agent requests, progress
\* comments and the completion comment.
C15_Witness ==
    /\ pc = "end"
    /\ outcome = "success"
    /\ Len(agentLog) = 8
    /\ Cardinality({i \in DOMAIN extLog : extLog[i].op = "add_comment"}) = 13


\* C16: on the HTTP path get_task answers a 404 with TaskNotFoundError and
\* every other non-2xx status with a ClickUpAPIError whose message carries
\* the status code, whatever the response body is.
C16_StatusDecidesError ==
    (cl.op = "get_task" /\ cl.status \notin 200..299) =>
        IF cl.status = 404
        THEN cl.result.kind = "TaskNotFoundError"
        ELSE /\ cl.result.kind = "ClickUpAPIError"
             /\ \E i \in DOMAIN cl.result.msg :
                    cl.result.msg[i] = StatusStr(cl.status)

\* C17: when the field catalog cannot be fetched or does not hold the field
\* name, set_task_custom_field fails with ClickUpAPIError and sends no
\* field-value write.
C17_UnknownFieldNoWrite ==
    (/\ cl.op = "set_task_custom_field"
     /\ \/ cl.fields_status # 200
        \/ \A i \in DOMAIN cl.catalog : cl.catalog[i].name # cl.field_name) =>
        /\ cl.result.kind = "ClickUpAPIError"
        /\ \A i \in DOMAIN cl.result.requests :
              cl.result.requests[i].method # "POST"

\* C17 witness: the catalog was fetched and holds fields, but not the one
\* asked for.
C17_Witness ==
    /\ cl.op = "set_task_custom_field"
    /\ cl.fields_status = 200
    /\ cl.set_status = 200
    /\ cl.catalog # <<>>
    /\ \A i \in DOMAIN cl.catalog : cl.catalog[i].name # cl.field_name

\* The tags that decide, and the Type fields that decide
MatchingTags(task) == {i \in DOMAIN task.tags : TagAt(task, i) # NoMatch}

MatchingFields(task) ==
    {i \in DOMAIN task.custom_fields : FieldAt(task, i) # NoMatch}

Least(S) == CHOOSE i \in S : \A j \in S : i <= j

\* A keyword of the fallback is in the task's text
TextMatches(task) ==
    \E k \in {<<"f", "i", "x">>,
              <<"b", "u", "g">>,
              <<"e", "r", "r", "o", "r">>,
              <<"b", "r", "o", "k", "e", "n">>,
              <<"c", "h", "o", "r", "e">>,
              <<"r", "e", "f", "a", "c", "t", "o", "r">>} \cup
             {<<"c", "l", "e", "a", "n", "u", "p">>,
              <<"m", "a", "i", "n", "t", "e", "n", "a", "n", "c", "e">>,
              <<"u", "p", "d", "a", "t", "e">>,
              <<"e", "n", "h", "a", "n", "c", "e">>} \cup
             {<<"i", "m", "p", "r", "o", "v", "e">>,
              <<"o", "p", "t", "i", "m", "i", "z", "e">>} :
        ContainsSub(TaskText(task), k)

\* C18: extract_task_type returns one of bug, feature, chore, update; the
\* first matching tag decides whatever fields and text say, else the first
\* matching Type field decides whatever the text says, else the text
\* decides, and the result is feature when nothing matches.
C18_Precedence ==
    cl.op = "extract_task_type" =>
        LET task == cl.task
            mt == MatchingTags(task)
            mf == MatchingFields(task) IN
        /\ cl.result \in {"bug", "feature", "chore", "update"}
        /\ mt # {} => cl.result = TagAt(task, Least(mt))
        /\ (mt = {} /\ mf # {}) => cl.result = FieldAt(task, Least(mf))
        /\ (mt = {} /\ mf = {}) => cl.result = TextRule(TaskText(task))
        /\ (mt = {} /\ mf = {} /\ ~TextMatches(task)) => cl.result = "feature"

\* C18 witness: a tag, a Type field and the text each say something else,
\* and the tag decided.
C18_Witness ==
    /\ cl.op = "extract_task_type"
    /\ MatchingTags(cl.task) # {}
    /\ MatchingFields(cl.task) # {}
    /\ cl.result # FieldAt(cl.task, Least(MatchingFields(cl.task)))
    /\ cl.result # TextRule(TaskText(cl.task))
    /\ TextRule(TaskText(cl.task))
          # FieldAt(cl.task, Least(MatchingFields(cl.task)))

\* What the tag rule returns for a text, feature when it has no keyword
TagRuleOrDefault(t) == IF TagRule(t) = NoMatch THEN "feature" ELSE TagRule(t)

\* The fallback decides: no tag and no Type field matched
FallbackReached ==
    /\ cl.op = "extract_task_type"
    /\ MatchingTags(cl.task) = {}
    /\ MatchingFields(cl.task) = {}

HasAny(t, words) == \E k \in words : ContainsSub(t, k)

BugWords ==
    {<<"f", "i", "x">>,
     <<"b", "u", "g">>,
     <<"e", "r", "r", "o", "r">>,
     <<"b", "r", "o", "k", "e", "n">>}

ChoreWords ==
    {<<"c", "h", "o", "r", "e">>,
     <<"r", "e", "f", "a", "c", "t", "o", "r">>,
     <<"c", "l", "e", "a", "n", "u", "p">>,
     <<"m", "a", "i", "n", "t", "e", "n", "a", "n", "c", "e">>}

UpdateWords ==
    {<<"u", "p", "d", "a", "t", "e">>,
     <<"e", "n", "h", "a", "n", "c", "e">>,
     <<"i", "m", "p", "r", "o", "v", "e">>,
     <<"o", "p", "t", "i", "m", "i", "z", "e">>}

\* The keywords of the fallback that the tag rule does not have
ExtraWords ==
    {<<"e", "r", "r", "o", "r">>,
     <<"b", "r", "o", "k", "e", "n">>,
     <<"r", "e", "f", "a", "c", "t", "o", "r">>,
     <<"c", "l", "e", "a", "n", "u", "p">>,
     <<"m", "a", "i", "n", "t", "e", "n", "a", "n", "c", "e">>,
     <<"i", "m", "p", "r", "o", "v", "e">>,
     <<"o", "p", "t", "i", "m", "i", "z", "e">>}

Handled == wh.up /\ wh.n > 0

\* The request passed the signature check and its body is a JSON object
\* that carries a task id, directly or in its first history item
AuthenticatedWithTask ==
    LET p == wh.last.payload IN
    /\ ~Truthy(wh.secret) \/ wh.last.signature = wh.secret
    /\ p.kind = "object"
    /\ \/ Truthy(Get(p.task_id))
       \/ p.history # <<>> /\ Truthy(Get(p.history[1].task_id))

\* A task-created event that passes the list filter
CreatedInList ==
    LET p == wh.last.payload IN
    /\ p.event = <<"taskCreated">>
    /\ ~Truthy(wh.list_id) \/ p.list_id = wh.list_id

\* C20: a request starts exactly one background process and is answered
\* accepted if and only if it is authenticated, carries a task id and is a
\* task-created event passing the list filter or a comment-posted event
\* whose comment text is exactly adw; every other request starts nothing.
C20_SpawnIffTrigger ==
    Handled =>
        LET p == wh.last.payload
            trigger ==
                /\ AuthenticatedWithTask
                /\ \/ CreatedInList
                   \/ /\ p.event = <<"taskCommentPosted">>
                      /\ p.comment.kind = "object"
                      /\ p.comment.text = <<"a", "d", "w">> IN
        IF trigger
        THEN Len(wh.spawned) = 1 /\ wh.response.status = "accepted"
        ELSE wh.spawned = <<>> /\ wh.response.status # "accepted"

\* C20 as amended: the comment text is compared after trimming and
\* lower-casing, and a triggering request whose process cannot be started
\* is answered error with nothing running.  Otherwise a triggering request
\* starts exactly one process for the carried task id with the id
\* make_adw_id returned for this request, and is answered accepted with
\* that id; every other request starts nothing, takes no new id and is not
\* answered accepted.
C20_SpawnIffCommand ==
    Handled =>
        LET p == wh.last.payload
            trigger ==
                /\ AuthenticatedWithTask
                /\ \/ CreatedInList
                   \/ /\ p.event = <<"taskCommentPosted">>
                      /\ p.comment.kind \in {"absent", "object"}
                      /\ p.comment.text # None
                      /\ Lower(Strip(GetOr(p.comment.text, <<>>)))
                            = <<"a", "d", "w">> IN
        /\ Len(wh.procs) <= wh.n
        /\ IF trigger
           THEN \/ /\ Len(wh.spawned) = 1
                   /\ wh.response.status = "accepted"
                   /\ wh.minted = <<wh.spawned[1].adw_id>>
                   /\ wh.response.adw_id = wh.spawned[1].adw_id
                   /\ wh.spawned[1].task_id = wh.response.task
                   /\ wh.spawned[1].task_id =
                         IF Truthy(Get(p.task_id)) THEN p.task_id
                         ELSE p.history[1].task_id
                \/ /\ wh.spawned = <<>>
                   /\ wh.response.status = "error"
           ELSE /\ wh.spawned = <<>>
                /\ wh.minted = <<>>
                /\ wh.response.status # "accepted"

\* C20 witness: the second of two requests that each started a process is
\* a comment that spells the command with blanks and capitals.
C20_Witness ==
    /\ Handled
    /\ wh.n = 2
    /\ Len(wh.procs) = 2
    /\ wh.last.payload.event = <<"taskCommentPosted">>
    /\ wh.last.payload.comment.text = <<" ", "A", "D", "W", "\n">>
    /\ wh.response.status = "accepted"


\* C21: with a list configured, an authenticated task-created event that
\* carries a task id and whose list_id is another list or absent is answered
\* ignored with a reason that names the configured list, and starts nothing.
C21_OutsideListIgnored ==
    (/\ Handled
     /\ AuthenticatedWithTask
     /\ Truthy(wh.list_id)
     /\ wh.last.payload.event = <<"taskCreated">>
     /\ wh.last.payload.list_id # wh.list_id) =>
        /\ wh.response.status = "ignored"
        /\ wh.response.reason = <<"Task not in configured list ">> \o wh.list_id
        /\ wh.spawned = <<>>
        /\ wh.minted = <<>>

\* C21 witness: with a list configured and nothing started so far, the
\* second request is a task-created event without list_id; it was ignored.
C21_Witness ==
    /\ Handled
    /\ wh.n = 2
    /\ wh.procs = <<>>
    /\ AuthenticatedWithTask
    /\ Truthy(wh.list_id)
    /\ wh.last.payload.event = <<"taskCreated">>
    /\ wh.last.payload.list_id = Absent
    /\ wh.response.status = "ignored"


\* C22: with a secret configured, a request whose signature header is
\* missing or another token is answered error for the signature alone,
\* whatever its body is, and starts nothing; with no secret configured no
\* request is turned down for its signature.
C22_SignatureGate ==
    Handled =>
        IF Truthy(wh.secret)
        THEN wh.last.signature # wh.secret =>
                /\ wh.response = [Response("error") EXCEPT
                                     !.error = "Invalid signature"]
                /\ wh.spawned = <<>>
                /\ wh.minted = <<>>
        ELSE wh.response.error # "Invalid signature"

\* C22 witness: a request without the header whose body is no JSON was
\* turned down for its signature.
C22_Witness ==
    /\ Handled
    /\ Truthy(wh.secret)
    /\ wh.last.signature = None
    /\ wh.last.payload.kind = "invalid"
    /\ wh.response.error = "Invalid signature"

\* C23: every request is answered with a body whose status is ok, accepted,
\* ignored or error, also when the body is no JSON, the signature is wrong
\* or the handler raises, as when the process cannot be started.
C23_AlwaysAnswered ==
    Handled => wh.response.status \in {"ok", "accepted", "ignored", "error"}

\* C23 witness: a triggering request whose process could not be started
\* was answered with the internal error body.
C23_Witness ==
    /\ Handled
    /\ wh.minted # <<>>
    /\ wh.spawned = <<>>
    /\ wh.response.status = "error"
    /\ wh.response.message = "Internal error processing webhook"


\* C26: when the first get_work_item fails, the run ends with exit status 1
\* having posted no comment, asked for no status update and invoked no agent.
C26_FetchFailureSilent ==
    (work_item = None /\ pc # "get_work_item") =>
        /\ pc = "end"
        /\ outcome = "exit1"
        /\ extLog = <<>>
        /\ agentLog = <<>>

\* C26 witness: a run that ended at the failed fetch.
C26_Witness ==
    /\ pc = "end"
    /\ work_item = None
    /\ outcome = "exit1"

\* The stages that follow the branch stage
AfterBranch ==
    {"build_plan", "find_plan_file", "commit_plan", "implement",
     "commit_implementation", "pull_request"}

\* C27: a stage after the branch stage is only invoked with a non-empty
\* branch name, the pull-request stage is given that name, and the branch
\* field of stage 9 is written with it.
C27_BranchNameNonEmpty ==
    /\ \A i \in DOMAIN agentLog :
          agentLog[i].stage \in AfterBranch =>
              /\ Truthy(branch_name)
              /\ branch_name = agentLog[2].result
              /\ agentLog[i].stage = "pull_request" =>
                    agentLog[i].args[1] = branch_name
    /\ \A i \in FieldWrites :
          extLog[i].field = FIELD_BRANCH =>
              Truthy(extLog[i].text) /\ extLog[i].text = branch_name

\* The ready-for-review status update was asked for
ReadyRequested ==
    \E i \in DOMAIN extLog :
        extLog[i].op = "update_status" /\ extLog[i].status = READY_FOR_REVIEW

\* C29: when the branch field write fails the PR URL field write is not
\* attempted, yet the run asks for the ready-for-review status, posts the
\* completion comment and ends successfully; the ready-for-review status is
\* asked for only after the pull-request stage succeeded.
C29_Stage9OneGuard ==
    /\ (\E i \in FieldWrites : extLog[i].field = FIELD_BRANCH /\ ~extLog[i].ok) =>
          /\ \A i \in FieldWrites : extLog[i].field # FIELD_PR_URL
          /\ pc \in {"status_ready", "comment_complete", "end"}
          /\ pc = "end" =>
                /\ outcome = "success"
                /\ ReadyRequested
                /\ extLog[Len(extLog)].op = "add_comment"
                /\ ~IsErrorComment(extLog[Len(extLog)])
    /\ ReadyRequested =>
          /\ Len(agentLog) = 8
          /\ agentLog[8].stage = "pull_request"
          /\ ~Failed(agentLog[8])


\* C27: a run whose branch stage answered successfully with blank output
\* went on to the pull-request stage and wrote the empty branch name.
C27_EmptyBranchReachesStage9 ==
    /\ Len(agentLog) = 8
    /\ agentLog[2].success
    /\ branch_name = <<>>
    /\ agentLog[8].args[1] = <<>>
    /\ \E i \in FieldWrites : extLog[i].field = FIELD_BRANCH /\ extLog[i].text = <<>>

\* C29, first half: the two field writes of stage 9 share one guard.
C29_SharedGuard ==
    (\E i \in FieldWrites : extLog[i].field = FIELD_BRANCH /\ ~extLog[i].ok) =>
        /\ \A i \in FieldWrites : extLog[i].field # FIELD_PR_URL
        /\ pc \in {"status_ready", "comment_complete", "end"}
        /\ pc = "end" =>
              /\ outcome = "success"
              /\ ReadyRequested
              /\ extLog[Len(extLog)].op = "add_comment"
              /\ ~IsErrorComment(extLog[Len(extLog)])

\* C29: a run whose branch field write failed, ended successfully.
C29_BranchWriteFailed ==
    /\ pc = "end"
    /\ outcome = "success"
    /\ \E i \in FieldWrites : extLog[i].field = FIELD_BRANCH /\ ~extLog[i].ok


\* ---------------------------------------- the server and its processes
\* The process the last accepted request started
Launched == fleet.runs[Len(fleet.runs)]

\* C24: a request is answered `accepted` in the step that launches the
\* process: the new process has not run yet, the task is untouched and the
\* other processes are where they were; and no step of a workflow changes
\* the server or the response it gave.
C24_AcceptedAtLaunch ==
    [][/\ (wh'.n # wh.n /\ wh'.response.status = "accepted") =>
             /\ Len(fleet'.runs) = Len(fleet.runs) + 1
             /\ SubSeq(fleet'.runs, 1, Len(fleet.runs)) = fleet.runs
             /\ fleet'.runs[Len(fleet'.runs)].pc = "get_work_item"
             /\ fleet'.runs[Len(fleet'.runs)].outcome = "running"
             /\ fleet'.runs[Len(fleet'.runs)].adw_id = wh'.response.adw_id
             /\ fleet'.task = fleet.task
       /\ (wh'.n = wh.n) => wh' = wh]_allvars

\* C24 witness: the response to the last request is `accepted` and the
\* workflow it started has failed since.
C24_Witness ==
    /\ fleet.up
    /\ fleet.cause = "external"
    /\ wh.response.status = "accepted"
    /\ wh.spawned # <<>>
    /\ Launched.adw_id = wh.response.adw_id
    /\ Launched.outcome = "exit1"

\* C25, amended: every accepted request has its own process, with the
\* adw_id the handler drew for it, and a process that has not ended can
\* take its next step whatever the others are doing.
C25_NoMutualExclusion ==
    /\ Len(fleet.runs) = Len(wh.procs)
    /\ \A i \in DOMAIN fleet.runs :
          /\ fleet.runs[i].adw_id = wh.procs[i].adw_id
          /\ fleet.runs[i].task_id = wh.procs[i].task_id
          /\ fleet.runs[i].pc # "end" => ENABLED RunStep(i)

\* C25 as stated: two triggering events for one task give two processes
\* with distinct adw_ids, neither of which waits for the other.
C25_DistinctIds ==
    /\ C25_NoMutualExclusion
    /\ \A i, j \in DOMAIN fleet.runs :
          (i # j /\ fleet.runs[i].task_id = fleet.runs[j].task_id) =>
              fleet.runs[i].adw_id # fleet.runs[j].adw_id

\* C25 witness: two processes for the same task are both running, and the
\* in-progress status of the second landed after the ready-for-review
\* status of the first.
C25_Witness ==
    /\ fleet.up
    /\ Len(fleet.runs) = 2
    /\ fleet.runs[1].task_id = fleet.runs[2].task_id
    /\ fleet.runs[1].adw_id # fleet.runs[2].adw_id
    /\ fleet.runs[1].pc = "comment_complete"
    /\ fleet.runs[2].pc = "stages"
    /\ fleet.task.status = <<2, IN_PROGRESS>>

C30_CommentBypassesListFilter ==
    /\ (fleet.cause = "external"
        /\ wh.last.payload.event = <<"taskCommentPosted">>) =>
          /\ wh.minted # <<>>
          /\ wh.response.status \in {"accepted", "error"}
          /\ wh.response.status = "accepted" =>
                /\ wh.spawned # <<>>
                /\ Launched.adw_id = wh.response.adw_id
                /\ Launched.reason = <<"Comment with 'adw' command">>
                /\ Launched.list_id = wh.list_id
    /\ \A i \in DOMAIN fleet.runs :
          fleet.runs[i].catalog # None =>
              fleet.runs[i].catalog =
                  IF Truthy(wh.list_id) THEN wh.list_id ELSE fleet.task.list

\* C30 witness: list L1 is configured, the task is in L2, and a workflow a
\* comment started has written a custom field with the catalog of L1.
C30_Witness ==
    /\ fleet.up
    /\ wh.list_id = <<"L1">>
    /\ fleet.task.list = <<"L2">>
    /\ \E i \in DOMAIN fleet.runs :
          /\ fleet.runs[i].reason = <<"Comment with 'adw' command">>
          /\ fleet.runs[i].catalog = <<"L1">>

====
